---- MODULE Spec2Model ----
(***************************************************************************)
(* LingoFlow: the spaced-repetition scheduler (src/services/srsService.ts), *)
(* the client handlers that create and review cards (src/App.tsx, Home and  *)
(* Study) and the server's card store (src/App.tsx, /api/cards routes).     *)
(*                                                                          *)
(* Timestamps are epoch milliseconds as in the source.  Words are sequences *)
(* of characters so that String.prototype.toLowerCase is a real conversion. *)
(* Non-integer day counts are carried in tenths of a day.  The products    *)
(* S * 2.5 and S * 4 are exact in floating point; S * 1.2 is never within   *)
(* 0.1 of a half, so Math.round of the floating-point product is the        *)
(* rounding of the exact one.                                               *)
(***************************************************************************)
EXTENDS Integers, Sequences, FiniteSets, Bags, TLC

VARIABLES
    db,          \* server: the rows of table flashcards, in rowid order
    net,         \* bag of POST /api/cards/sync requests in flight
    clock,       \* device -> value of Date.now() on that device
    nextId,      \* number of identifiers generated so far
    study,       \* device -> state of the mounted Study component
    synced,      \* card id -> number of handleRate syncs the server applied
    tCard,       \* scheduler harness: the card passed to scheduleReview
    tNow,        \* scheduler harness: Date.now()
    tCall,       \* scheduler harness: the last scheduleReview call
    pExisting,   \* dedup harness: cards returned by GET /api/cards
    pWords,      \* dedup harness: result.words of processArticle
    pOut,        \* dedup harness: outcome of the dedup loop
    iCall,       \* initializeCard harness: the last initializeCard call
    sCall,       \* sync harness: the last POST /api/cards/sync handled
    qCall        \* listing harness: the last GET or DELETE /api/cards handled

vars == <<db, net, clock, nextId, study, synced,
          tCard, tNow, tCall, pExisting, pWords, pOut, iCall, sCall, qCall>>

sysVars     == <<db, net, clock, nextId, study, synced>>
reviewVars  == <<tCard, tNow, tCall>>
dedupVars   == <<pExisting, pWords, pOut>>
callVars    == <<iCall, sCall, qCall>>

----------------------------------------------------------------------------
(* Bounds of the model *)

MaxClock  == 1      \* a device's clock runs over 0..MaxClock
MaxCards  == 2      \* identifiers generated by initializeCard
MaxSched  == 5      \* largest prior scheduledDays given to scheduleReview
MaxReps   == 2      \* largest reps of a card given to scheduleReview
MaxNet    == 2      \* sync requests in flight
MaxSess   == 1      \* Study mounts per device
MaxWords  == 2      \* length of result.words in the dedup harness
MaxExist  == 2      \* existing cards in the dedup harness
MaxBatch  == 1      \* length of result.words in the system
MaxRates  == 2      \* handleRate calls in a behaviour of the system
MaxSyncBatch == 2   \* cards in a request body of the sync harness

----------------------------------------------------------------------------
(* Program constants *)

AGAIN == 1
HARD  == 2
GOOD  == 3
EASY  == 4
Difficulty == {AGAIN, HARD, GOOD, EASY}

StateNew        == 0
StateLearning   == 1
StateReview     == 2
StateRelearning == 3

DayMs == 24 * 60 * 60 * 1000

NoRow  == [none |-> TRUE]
NoCall == [none |-> TRUE]
Unmounted == [session |-> 0, mounted |-> FALSE]

Devices == {"d1", "d2"}
Users   == {"u1"}
deviceUser(d) == "u1"

----------------------------------------------------------------------------
(* Strings *)

Chars == {"a", "A", "b", "B"}

lowerChar(c) ==
    CASE c = "A" -> "a"
      [] c = "B" -> "b"
      [] OTHER   -> c

toLowerCase(w) == [i \in 1..Len(w) |-> lowerChar(w[i])]

----------------------------------------------------------------------------
(* Math *)

MathMax(a, b) == IF a >= b THEN a ELSE b

\* Math.round of a non-negative value given in tenths: nearest integer,
\* halves towards +infinity
MathFloorTenths(t) == t \div 10
MathRound(t) == (t + 5) \div 10

----------------------------------------------------------------------------
(* srsService.ts *)

\* { ...a, ...b }: the properties of a, overridden and extended by those of b
objectSpread(a, b) ==
    [f \in DOMAIN a \cup DOMAIN b |-> IF f \in DOMAIN b THEN b[f] ELSE a[f]]

\* the properties initializeCard writes after ...word; id is the value of
\* Math.random().toString(36).substr(2, 9)
initialFields(source, userId, now, id) ==
    [ id                |-> id,
      userId            |-> userId,
      source            |-> source,
      createdAt         |-> now,
      updatedAt         |-> now,
      due               |-> now,
      stability         |-> 0,
      difficultyRating  |-> 0,
      elapsedDays       |-> 0,
      scheduledDays     |-> 0,
      reps              |-> 0,
      state             |-> StateNew ]

initializeCard_spreadLast(word, source, userId, now, id) ==
    objectSpread(initialFields(source, userId, now, id), word)
initializeCard(word, source, userId, now, id) ==
    objectSpread(word, initialFields(source, userId, now, id))

\* newCard.reps += 1
newReps_skipAgain(card, rating) ==
    IF rating = AGAIN THEN card.reps ELSE card.reps + 1
newReps(card, rating) == card.reps + 1

\* the value of `days` after the if/else-if chain, in tenths of a day
\* (card.scheduledDays || 1 is 1 when scheduledDays is 0)
orOne(s) == IF s # 0 THEN s ELSE 1
reviewDays(card, rating) ==
    CASE rating = AGAIN -> 0
      [] rating = HARD  -> MathMax(10, card.scheduledDays * 12)
      [] rating = GOOD  -> MathMax(10, orOne(card.scheduledDays) * 25)
      [] rating = EASY  -> MathMax(10, orOne(card.scheduledDays) * 40)
      [] OTHER          -> 10

\* newCard.state after the if/else-if chain; no branch for other ratings
reviewState_learning(card, rating) ==
    CASE rating = AGAIN -> StateRelearning
      [] rating \in {HARD, GOOD, EASY} ->
           IF card.state = StateNew THEN StateLearning ELSE StateReview
      [] OTHER -> card.state
reviewState_keepNew(card, rating) ==
    CASE rating = AGAIN ->
           IF card.state = StateNew THEN StateNew ELSE StateRelearning
      [] rating \in {HARD, GOOD, EASY} -> StateReview
      [] OTHER -> card.state
reviewState(card, rating) ==
    CASE rating = AGAIN -> StateRelearning
      [] rating = HARD  -> StateReview
      [] rating = GOOD  -> StateReview
      [] rating = EASY  -> StateReview
      [] OTHER          -> card.state

\* now1 is the value of Date.now() at line 26, now2 its value at line 44
scheduleReview_touchCreated(card, rating, now1, now2) ==
    LET sd == MathRound(reviewDays(card, rating)) IN
    [card EXCEPT !.reps          = newReps(card, rating),
                 !.createdAt     = now1,
                 !.updatedAt     = now1,
                 !.state         = reviewState(card, rating),
                 !.scheduledDays = sd,
                 !.due           = now2 + sd * DayMs]
scheduleReview(card, rating, now1, now2) ==
    LET sd == MathRound(reviewDays(card, rating)) IN
    [card EXCEPT !.reps          = newReps(card, rating),
                 !.updatedAt     = now1,
                 !.state         = reviewState(card, rating),
                 !.scheduledDays = sd,
                 !.due           = now2 + sd * DayMs]

\* the object the caller passed, after the call: scheduleReview works on a
\* copy ({ ...card }), so the argument keeps its fields
argAfterReview(card, rating, now1, now2) == card

----------------------------------------------------------------------------
(* Home.handleProcess: the dedup loop (App.tsx lines 203-213) *)

\* merged.find(c => c.word.toLowerCase() === newCard.word.toLowerCase())
wordExists_exact(merged, newCard) ==
    \E i \in 1..Len(merged) : merged[i].word = newCard.word
wordExists(merged, newCard) ==
    \E i \in 1..Len(merged) :
        toLowerCase(merged[i].word) = toLowerCase(newCard.word)

\* newCards.forEach(...) from index i on, with the merged and added lists so far
RECURSIVE dedupFrom(_, _, _, _)
dedupFrom(newCards, i, merged, added) ==
    IF i > Len(newCards) THEN [merged |-> merged, added |-> added]
    ELSE IF wordExists(merged, newCards[i])
         THEN dedupFrom(newCards, i + 1, merged, added)
         ELSE dedupFrom(newCards, i + 1,
                        Append(merged, newCards[i]), Append(added, newCards[i]))

dedup(existing, newCards) == dedupFrom(newCards, 1, existing, <<>>)

\* result.words.map(w => initializeCard(w, result.title, user.id)); the k-th
\* generated identifier is firstId + k - 1
mapInitialize(words, title, userId, now, firstId) ==
    [k \in 1..Len(words) |->
        initializeCard(words[k], title, userId, now, firstId + k - 1)]

----------------------------------------------------------------------------
(* Inputs *)

\* words that differ in case only, and words that differ otherwise
WordStrings ==
    { <<"a">>, <<"A">>, <<"b">>, <<"a", "b">>, <<"A", "b">>, <<"a", "B">> }

\* the words the extraction pipeline returns to the clients of the system
ArticleWords == { <<"a">>, <<"A">> }

\* a candidate of the extraction pipeline (geminiService responseSchema)
Candidate(w) ==
    [ word |-> w, pronunciation |-> "p", vietnameseMeaning |-> "m",
      context |-> "c", difficulty |-> "C1" ]

\* word records as the caller may pass them (word: any): the candidates of
\* the pipeline, and records that lack fields or carry fields of a Flashcard
WordRecords ==
    UNION { { Candidate(w),
              [word |-> w],
              objectSpread(Candidate(w), [id |-> 9, userId |-> "u9"]),
              objectSpread(Candidate(w),
                  [ source |-> "s9", createdAt |-> 7, updatedAt |-> 8,
                    due |-> 9, stability |-> 1, difficultyRating |-> 1,
                    scheduledDays |-> 4, reps |-> 3, state |-> StateReview ]) }
            : w \in WordStrings }

SeqsUpTo(S, n) == UNION {[1..k -> S] : k \in 0..n}

Ratings == 0..5

\* cards handed to the scheduler harness
InputCards ==
    { [initializeCard(Candidate(<<"a">>), "t", "u1", 0, 1)
          EXCEPT !.scheduledDays = s, !.reps = r, !.state = st] :
      s \in 0..MaxSched, r \in 0..1,
      st \in {StateNew, StateReview, StateRelearning} }

----------------------------------------------------------------------------
(* Scheduler harness: scheduleReview applied to bounded inputs *)

SysIdle ==
    /\ db = <<>>
    /\ net = EmptyBag
    /\ clock = [d \in Devices |-> 0]
    /\ nextId = 0
    /\ study = [d \in Devices |-> Unmounted]
    /\ synced = [i \in 1..MaxCards |-> 0]

ReviewIdle == tCard = NoRow /\ tNow = 0 /\ tCall = NoCall
DedupIdle  == pExisting = <<>> /\ pWords = <<>> /\ pOut = NoCall
CallIdle   == iCall = NoCall /\ sCall = NoCall /\ qCall = NoCall

InitReview ==
    /\ SysIdle
    /\ DedupIdle
    /\ CallIdle
    /\ tCard \in InputCards
    /\ tNow = 0
    /\ tCall = NoCall

\* one call of scheduleReview; adv is the advance of the clock between the
\* two reads of Date.now()
ReviewCall(rating, adv) ==
    /\ tCard.reps < MaxReps
    /\ tCard.scheduledDays <= MaxSched
    /\ tNow + adv <= MaxClock
    /\ tCall' = [ card   |-> tCard,
                  rating |-> rating,
                  now1   |-> tNow,
                  now2   |-> tNow + adv,
                  result |-> scheduleReview(tCard, rating, tNow, tNow + adv),
                  arg    |-> argAfterReview(tCard, rating, tNow, tNow + adv) ]
    /\ tCard' = scheduleReview(tCard, rating, tNow, tNow + adv)
    /\ tNow' = tNow + adv
    /\ UNCHANGED <<sysVars, dedupVars, callVars>>

ReviewTick ==
    /\ tNow < MaxClock
    /\ tNow' = tNow + 1
    /\ UNCHANGED <<tCard, tCall, sysVars, dedupVars, callVars>>

NextReview ==
    \/ \E rating \in Ratings, adv \in 0..1 : ReviewCall(rating, adv)
    \/ ReviewTick

SpecReview == InitReview /\ [][NextReview]_vars

----------------------------------------------------------------------------
(* Card life cycle: initializeCard, then reviews with the ratings of the
   four rating buttons *)

InitLife ==
    /\ SysIdle
    /\ DedupIdle
    /\ CallIdle
    /\ \E word \in WordRecords, now \in 0..MaxClock :
          /\ tCard = initializeCard(word, "t", "u1", now, 1)
          /\ tNow = now
    /\ tCall = NoCall

NextLife ==
    \/ \E rating \in Difficulty, adv \in 0..1 : ReviewCall(rating, adv)
    \/ ReviewTick

SpecLife == InitLife /\ [][NextLife]_vars

----------------------------------------------------------------------------
(* Dedup harness: the dedup loop applied to bounded inputs *)

InitDedup ==
    /\ SysIdle
    /\ ReviewIdle
    /\ CallIdle
    /\ \E ws \in SeqsUpTo(WordStrings, MaxExist) :
          pExisting = mapInitialize([k \in 1..Len(ws) |-> Candidate(ws[k])],
                                    "t", "u1", 0, 1)
    /\ \E ws \in SeqsUpTo(WordStrings, MaxWords) :
          /\ ws # <<>>
          /\ pWords = [k \in 1..Len(ws) |-> Candidate(ws[k])]
    /\ pOut = NoCall

DedupRun ==
    /\ pOut = NoCall
    /\ pOut' = dedup(pExisting,
                     mapInitialize(pWords, "t", "u1", 1, Len(pExisting) + 1))
    /\ UNCHANGED <<pExisting, pWords, sysVars, reviewVars, callVars>>

NextDedup == DedupRun

SpecDedup == InitDedup /\ [][NextDedup]_vars

----------------------------------------------------------------------------
(* initializeCard harness: initializeCard applied to bounded inputs *)

InitInitialize ==
    /\ SysIdle
    /\ ReviewIdle
    /\ DedupIdle
    /\ CallIdle

InitializeCall(word, source, userId, now, id) ==
    /\ iCall' = [ word   |-> word,
                  source |-> source,
                  userId |-> userId,
                  now    |-> now,
                  result |-> initializeCard(word, source, userId, now, id) ]
    /\ UNCHANGED <<sCall, qCall, sysVars, reviewVars, dedupVars>>

NextInitialize ==
    \E word \in WordRecords, source \in {"t", "s"}, userId \in {"u1", "u2"},
       now \in 0..MaxClock, id \in 1..MaxCards :
          InitializeCall(word, source, userId, now, id)

SpecInitialize == InitInitialize /\ [][NextInitialize]_vars

----------------------------------------------------------------------------
(* Server: /api/cards routes (App.tsx lines 688-723) *)

\* SELECT * FROM flashcards WHERE userId = ?
selectCards(rows, uid) == SelectSeq(rows, LAMBDA r : r.userId = uid)

\* DELETE FROM flashcards WHERE id = ? AND userId = ?
deleteCard_anyOwner(rows, id, uid) == SelectSeq(rows, LAMBDA r : r.id # id)
deleteCard(rows, id, uid) ==
    SelectSeq(rows, LAMBDA r : ~(r.id = id /\ r.userId = uid))

\* INSERT OR REPLACE of one row: id is the primary key, so a row with the
\* same id is deleted and the new row is inserted at the end
insertOrReplace_append(rows, row) == Append(rows, row)
insertOrReplace_ownRows(rows, row) ==
    Append(SelectSeq(rows, LAMBDA r : r.userId # row.userId), row)
insertOrReplace(rows, row) ==
    Append(SelectSeq(rows, LAMBDA r : r.id # row.id), row)

\* the transaction of POST /api/cards/sync: every card of the batch is
\* written with userId = req.user.id
RECURSIVE syncFrom(_, _, _, _)
syncFrom(rows, uid, cards, i) ==
    IF i > Len(cards) THEN rows
    ELSE syncFrom(insertOrReplace(rows, [cards[i] EXCEPT !.userId = uid]),
                  uid, cards, i + 1)

syncCards(rows, uid, cards) == syncFrom(rows, uid, cards, 1)

----------------------------------------------------------------------------
(* Sync harness: POST /api/cards/sync handled for bounded stores and batches *)

AllUsers == {"u1", "u2"}

\* rows of the table: cards of earlier syncs, each id stored once
StoredRow(id, owner) ==
    initializeCard(Candidate(IF id = 1 THEN <<"a">> ELSE <<"b">>),
                   "t", owner, 0, id)

DistinctIds(rows) ==
    \A i, j \in 1..Len(rows) : rows[i].id = rows[j].id => i = j

Stores ==
    { rows \in SeqsUpTo({StoredRow(id, o) : id \in 1..MaxCards, o \in AllUsers},
                        MaxCards) : DistinctIds(rows) }

\* cards of a request body: any id, reviewed or not
BatchCards ==
    { [StoredRow(id, "u1") EXCEPT !.updatedAt = t, !.reps = t] :
      id \in 1..MaxCards, t \in 0..MaxClock }

InitSync ==
    /\ db \in Stores
    /\ net = EmptyBag
    /\ clock = [d \in Devices |-> 0]
    /\ nextId = 0
    /\ study = [d \in Devices |-> Unmounted]
    /\ synced = [i \in 1..MaxCards |-> 0]
    /\ ReviewIdle
    /\ DedupIdle
    /\ CallIdle

\* the route handles a request of user uid with body { cards }
syncRequest(uid, cards) ==
    /\ sCall = NoCall
    /\ db' = syncCards(db, uid, cards)
    /\ sCall' = [before |-> db, uid |-> uid, cards |-> cards, replay |-> FALSE]
    /\ UNCHANGED <<net, clock, nextId, study, synced, iCall, qCall,
                   reviewVars, dedupVars>>

\* the route handles the same request a second time
syncReplay ==
    /\ sCall # NoCall
    /\ ~sCall.replay
    /\ db' = syncCards(db, sCall.uid, sCall.cards)
    /\ sCall' = [sCall EXCEPT !.before = db, !.replay = TRUE]
    /\ UNCHANGED <<net, clock, nextId, study, synced, iCall, qCall,
                   reviewVars, dedupVars>>

NextSync ==
    \/ \E uid \in AllUsers, cards \in SeqsUpTo(BatchCards, MaxSyncBatch) :
          syncRequest(uid, cards)
    \/ syncReplay

SpecSync == InitSync /\ [][NextSync]_vars

----------------------------------------------------------------------------
(* Listing harness: GET /api/cards and DELETE /api/cards/:id handled for
   bounded stores, users and ids *)

\* ids of the route parameter: the ids of stored cards and one more
RouteIds == 1..(MaxCards + 1)

InitScope == InitSync

\* GET /api/cards of user uid
getCards(uid) ==
    /\ qCall' = [ op |-> "GET", uid |-> uid, id |-> 0, before |-> db,
                  result |-> selectCards(db, uid) ]
    /\ UNCHANGED <<iCall, sCall, sysVars, reviewVars, dedupVars>>

\* DELETE /api/cards/:id of user uid
deleteRequest(uid, id) ==
    /\ db' = deleteCard(db, id, uid)
    /\ qCall' = [ op |-> "DELETE", uid |-> uid, id |-> id, before |-> db,
                  result |-> <<>> ]
    /\ UNCHANGED <<net, clock, nextId, study, synced, iCall, sCall,
                   reviewVars, dedupVars>>

NextScope ==
    \/ \E uid \in AllUsers : getCards(uid)
    \/ \E uid \in AllUsers, id \in RouteIds : deleteRequest(uid, id)

SpecScope == InitScope /\ [][NextScope]_vars

----------------------------------------------------------------------------
(* Clients *)

Perms(n) == {f \in [1..n -> 1..n] : \A i, j \in 1..n : f[i] = f[j] => i = j}

\* all.filter(c => c.due <= Date.now()): the callback reads the clock once
\* for every element; nows[i] is the value read for all[i]
keepDue(all, nows) ==
    SelectSeq([i \in 1..Len(all) |-> i], LAMBDA i : all[i].due <= nows[i])
dueFilter_all(all, nows) == all
dueFilter(all, nows) ==
    [k \in 1..Len(keepDue(all, nows)) |-> all[keepDue(all, nows)[k]]]

\* prev.map(c => c.id === card.id ? updated : c)
replaceCard(all, id, updated) ==
    [i \in 1..Len(all) |-> IF all[i].id = id THEN updated ELSE all[i]]

Request(d, sess, from, cards) ==
    [dev |-> d, session |-> sess, from |-> from, cards |-> cards]

InFlight == BagCardinality(net)

RECURSIVE sumTo(_, _)
sumTo(f, n) == IF n = 0 THEN 0 ELSE f[n] + sumTo(f, n - 1)

\* handleRate requests applied by the server or still in flight
RatesIssued ==
    sumTo(synced, MaxCards)
      + BagCardinality([m \in {x \in BagToSet(net) : x.from = "handleRate"}
                           |-> net[m]])

Init ==
    /\ SysIdle
    /\ ReviewIdle
    /\ DedupIdle
    /\ CallIdle

Tick(d) ==
    /\ clock[d] < MaxClock
    /\ clock' = [clock EXCEPT ![d] = clock[d] + 1]
    /\ UNCHANGED <<db, net, nextId, study, synced, reviewVars, dedupVars, callVars>>

\* the LoadingOverlay covers the page while a handleProcess run is pending
isProcessing(d) ==
    \E m \in BagToSet(net) : m.dev = d /\ m.from = "handleProcess"

\* Home.handleProcess up to the sync request: GET /api/cards, initializeCard
\* for every word, the dedup loop, and the POST of the added cards
handleProcess(d, words) ==
    /\ words # <<>>
    /\ ~isProcessing(d)
    /\ nextId + Len(words) <= MaxCards
    /\ InFlight < MaxNet
    /\ LET existing == selectCards(db, deviceUser(d))
           newCards == mapInitialize(words, "t", deviceUser(d), clock[d],
                                     nextId + 1)
           added    == dedup(existing, newCards).added
       IN  /\ nextId' = nextId + Len(words)
           /\ net' = IF Len(added) > 0
                     THEN net (+) SetToBag({Request(d, 0, "handleProcess", added)})
                     ELSE net
    /\ UNCHANGED <<db, clock, study, synced, reviewVars, dedupVars, callVars>>

\* the values of Date.now() read by the filter callback for n elements, when
\* the clock advances by one after k of them
clockReads(now, n, k) == [i \in 1..n |-> IF i <= k THEN now ELSE now + 1]

\* Study mounts: fetchCards; the clock of the device may advance while the
\* filter runs (after k elements; k = Len(all) is no advance)
fetchCards(d) ==
    /\ study[d].session < MaxSess
    /\ LET all == selectCards(db, deviceUser(d)) IN
       \E k \in 0..Len(all) :
         /\ k < Len(all) => clock[d] < MaxClock
         /\ clock' = [clock EXCEPT ![d] = IF k < Len(all) THEN @ + 1 ELSE @]
         /\ LET due == dueFilter(all, clockReads(clock[d], Len(all), k)) IN
            \E p \in Perms(Len(due)) :
              study' = [study EXCEPT ![d] =
                 [ session      |-> study[d].session + 1,
                   mounted      |-> TRUE,
                   allCards     |-> all,
                   dueCards     |-> [i \in 1..Len(due) |-> due[p[i]]],
                   currentIndex |-> 0,
                   isFlipped    |-> FALSE,
                   isStarted    |-> FALSE,
                   timers       |-> 0,
                   retry        |-> "none" ]]
    /\ UNCHANGED <<db, net, nextId, synced, reviewVars, dedupVars, callVars>>

\* "Start Learning Flow"
startSession(d) ==
    /\ study[d].mounted
    /\ ~study[d].isStarted
    /\ Len(study[d].dueCards) > 0
    /\ study' = [study EXCEPT ![d].isStarted = TRUE]
    /\ UNCHANGED <<db, net, clock, nextId, synced, reviewVars, dedupVars, callVars>>

Presenting(d) ==
    /\ study[d].mounted
    /\ study[d].isStarted
    /\ study[d].currentIndex < Len(study[d].dueCards)

\* click on the card
flipCard(d) ==
    /\ Presenting(d)
    /\ ~study[d].isFlipped
    /\ study' = [study EXCEPT ![d].isFlipped = TRUE]
    /\ UNCHANGED <<db, net, clock, nextId, synced, reviewVars, dedupVars, callVars>>

\* Study.handleRate up to the sync request; the rating buttons take clicks
\* only while the card is flipped
handleRate(d, rating, adv) ==
    /\ Presenting(d)
    /\ study[d].isFlipped
    /\ InFlight < MaxNet
    /\ RatesIssued < MaxRates
    /\ clock[d] + adv <= MaxClock
    /\ LET card    == study[d].dueCards[study[d].currentIndex + 1]
           updated == scheduleReview(card, rating, clock[d], clock[d] + adv)
       IN  net' = net (+) SetToBag({Request(d, study[d].session,
                                            "handleRate", <<updated>>)})
    /\ clock' = [clock EXCEPT ![d] = clock[d] + adv]
    /\ UNCHANGED <<db, nextId, study, synced, reviewVars, dedupVars, callVars>>

\* POST /api/cards/sync is served and the response reaches the client: the
\* rest of handleRate runs if its Study component is still mounted
syncOk(m) ==
    /\ BagIn(m, net)
    /\ net' = net (-) SetToBag({m})
    /\ db' = syncCards(db, deviceUser(m.dev), m.cards)
    /\ IF m.from = "handleRate"
       THEN /\ synced' = [synced EXCEPT ![m.cards[1].id] = @ + 1]
            /\ study' = IF study[m.dev].mounted
                           /\ study[m.dev].session = m.session
                        THEN [study EXCEPT
                                ![m.dev].allCards =
                                    replaceCard(@, m.cards[1].id, m.cards[1]),
                                ![m.dev].isFlipped = FALSE,
                                ![m.dev].timers = @ + 1,
                                ![m.dev].retry =
                                    IF @ = "failed" THEN "recovered" ELSE @]
                        ELSE study
       ELSE UNCHANGED <<synced, study>>
    /\ UNCHANGED <<clock, nextId, reviewVars, dedupVars, callVars>>

\* the catch branch of handleRate ("Failed to sync progress."): no state of
\* the component is set; retry records that an attempt of the session failed
\* ("failed") and that a later attempt went through ("recovered")
catchRate_advance(st, m) ==
    IF m.from = "handleRate" /\ st[m.dev].mounted
       /\ st[m.dev].session = m.session
    THEN [st EXCEPT ![m.dev].retry = "failed", ![m.dev].timers = @ + 1]
    ELSE st
catchRate(st, m) ==
    IF m.from = "handleRate" /\ st[m.dev].mounted
       /\ st[m.dev].session = m.session
    THEN [st EXCEPT ![m.dev].retry = "failed"]
    ELSE st

\* the request fails before the server handles it (fetch rejects, or the
\* server answers with an error status): the catch branch
syncFail(m) ==
    /\ BagIn(m, net)
    /\ net' = net (-) SetToBag({m})
    /\ study' = catchRate(study, m)
    /\ UNCHANGED <<db, clock, nextId, synced, reviewVars, dedupVars, callVars>>

\* the server commits the transaction and the response does not reach the
\* client (fetch rejects): the catch branch
syncLost(m) ==
    /\ BagIn(m, net)
    /\ net' = net (-) SetToBag({m})
    /\ db' = syncCards(db, deviceUser(m.dev), m.cards)
    /\ synced' = IF m.from = "handleRate"
                 THEN [synced EXCEPT ![m.cards[1].id] = @ + 1]
                 ELSE synced
    /\ study' = catchRate(study, m)
    /\ UNCHANGED <<clock, nextId, reviewVars, dedupVars, callVars>>

\* setTimeout(() => setCurrentIndex(prev => prev + 1), 300)
advanceIndex(d) ==
    /\ study[d].mounted
    /\ study[d].timers > 0
    /\ study' = [study EXCEPT ![d].timers = @ - 1,
                              ![d].currentIndex = @ + 1,
                              ![d].retry = "none"]
    /\ UNCHANGED <<db, net, clock, nextId, synced, reviewVars, dedupVars, callVars>>

\* Home pages of the devices and the server
InitHome == Init

NextHome ==
    \/ \E d \in Devices : Tick(d)
    \/ \E d \in Devices, ws \in SeqsUpTo(ArticleWords, MaxBatch) :
          handleProcess(d, [k \in 1..Len(ws) |-> Candidate(ws[k])])
    \/ \E m \in BagToSet(net) : syncOk(m)
    \/ \E m \in BagToSet(net) : syncFail(m)
    \/ \E m \in BagToSet(net) : syncLost(m)

SpecHome == InitHome /\ [][NextHome]_vars

\* the rating buttons clicked in the sessions: Again (due at once) and Good
\* (due days later); Hard and Easy differ from Good in the number of days
SessionRatings == {AGAIN, GOOD}

\* Study pages of the devices and the server, from a store that holds the
\* cards of earlier handleProcess runs (already synced; created[k] is the
\* clock value initializeCard read for card k)
InitStudy ==
    /\ \E n \in 1..MaxCards :
        \E created \in [1..n -> 0..MaxClock] :
          /\ db = [k \in 1..n |->
                     initializeCard(Candidate(IF k = 1 THEN <<"a">> ELSE <<"b">>),
                                    "t", "u1", created[k], k)]
          /\ nextId = n
    /\ net = EmptyBag
    /\ clock = [d \in Devices |-> 0]
    /\ study = [d \in Devices |-> Unmounted]
    /\ synced = [i \in 1..MaxCards |-> 0]
    /\ ReviewIdle
    /\ DedupIdle
    /\ CallIdle

NextStudy ==
    \/ \E d \in Devices : Tick(d)
    \/ \E d \in Devices : fetchCards(d)
    \/ \E d \in Devices : startSession(d)
    \/ \E d \in Devices : flipCard(d)
    \/ \E d \in Devices, rating \in SessionRatings, adv \in 0..1 :
          handleRate(d, rating, adv)
    \/ \E m \in BagToSet(net) : syncOk(m)
    \/ \E m \in BagToSet(net) : syncFail(m)
    \/ \E m \in BagToSet(net) : syncLost(m)
    \/ \E d \in Devices : advanceIndex(d)

SpecStudy == InitStudy /\ [][NextStudy]_vars

----------------------------------------------------------------------------
(* Claims *)

Called      == tCall # NoCall
ValidCall   == Called /\ tCall.rating \in Difficulty
InvalidCall == Called /\ tCall.rating \notin Difficulty

\* reviews of device d that the server applied and d's session took note of
reviewsAcked(d) ==
    IF study[d].mounted THEN study[d].currentIndex + study[d].timers ELSE 0

RECURSIVE sumAcked(_)
sumAcked(S) ==
    IF S = {} THEN 0
    ELSE LET d == CHOOSE x \in S : TRUE
         IN  reviewsAcked(d) + sumAcked(S \ {d})

\* every device has reviewed at most one card, and every review the server
\* applied was answered to its session (no response was lost)
OneReviewPerDevice ==
    /\ \A d \in Devices : reviewsAcked(d) <= 1
    /\ sumTo(synced, MaxCards) = sumAcked(Devices)

\* C1: a submitted record whose updatedAt is smaller than the updatedAt of
\* the row stored under the same card id never replaces it: the updatedAt
\* stored under a card id never decreases (stated for sync requests of
\* devices that each review a card once and receive every response).
C1_LastWriteWins ==
    [][OneReviewPerDevice' =>
          \A i \in 1..Len(db), j \in 1..Len(db') :
              db[i].id = db'[j].id => db'[j].updatedAt >= db[i].updatedAt]_vars

\* C2: the server store never holds two cards of one user whose words are
\* equal under case-insensitive comparison.
C2_NoDuplicateWord ==
    \A i, j \in 1..Len(db) :
        (i # j /\ db[i].userId = db[j].userId)
            => toLowerCase(db[i].word) # toLowerCase(db[j].word)

\* C3: once every sync request has been answered, the reps stored for a card
\* id equals the number of reviews of that card the server has applied
\* (stated for devices that each review a card once and receive every
\* response).
C3_NoReviewLost ==
    (net = EmptyBag /\ OneReviewPerDevice) =>
        \A i \in 1..Len(db) : db[i].reps = synced[db[i].id]

\* C4: for every card and every valid rating, scheduleReview returns a card
\* whose reps is the input card's reps plus exactly one.
C4_RepsPlusOne ==
    ValidCall => tCall.result.reps = tCall.card.reps + 1

C4_Witness ==
    /\ ValidCall
    /\ tCall.rating = AGAIN
    /\ tCall.card.state = StateRelearning
    /\ tCall.card.reps = 1
    /\ tCall.result.reps = 2

\* C5: the cards accepted by the dedup loop contain no two cards with equal
\* lower-cased words and no card whose lower-cased word equals that of an
\* existing card; every candidate is either accepted or collides with an
\* existing card or an earlier candidate.
C5_DedupAccepted ==
    pOut # NoCall =>
        LET added == pOut.added
            lw(c) == toLowerCase(c.word)
        IN  /\ \A i, j \in 1..Len(added) : i # j => lw(added[i]) # lw(added[j])
            /\ \A i \in 1..Len(added), e \in 1..Len(pExisting) :
                   lw(added[i]) # lw(pExisting[e])
            /\ \A k \in 1..Len(pWords) :
                   \/ \E i \in 1..Len(added) : added[i].word = pWords[k].word
                   \/ \E e \in 1..Len(pExisting) :
                          lw(pExisting[e]) = toLowerCase(pWords[k].word)
                   \/ \E k2 \in 1..(k - 1) :
                          toLowerCase(pWords[k2].word) = toLowerCase(pWords[k].word)
            /\ pOut.merged = pExisting \o added

C5_Witness ==
    /\ pOut # NoCall
    /\ Len(pExisting) = 1
    /\ pExisting[1].word = <<"a", "b">>
    /\ Len(pWords) = 2
    /\ pWords[1].word = <<"A", "b">>
    /\ pWords[2].word = <<"b">>
    /\ Len(pOut.added) = 1
    /\ pOut.added[1].word = <<"b">>

\* C6: the state produced by scheduleReview depends only on the rating:
\* Again yields Relearning (3); Hard, Good and Easy yield Review (2).
C6_StateFromRating ==
    ValidCall =>
        tCall.result.state = IF tCall.rating = AGAIN THEN 3 ELSE 2

C6_Witness ==
    /\ ValidCall
    /\ tCall.card.state = StateNew
    /\ tCall.rating = HARD
    /\ tCall.result.state = 2

\* C7: the new scheduledDays is the interval rounded to the nearest whole
\* day, halves rounded up: 0 for Again, round(max(1, S*1.2)) for Hard,
\* round(max(1, (S or 1)*2.5)) for Good, round(max(1, (S or 1)*4)) for Easy;
\* from S = 0 Good gives 3 and Hard gives 1, from S = 2 Easy gives 8.
C7_RoundedInterval ==
    ValidCall =>
        LET S  == tCall.card.scheduledDays
            S1 == IF S = 0 THEN 1 ELSE S
            r  == tCall.result.scheduledDays
            \* twenty times the interval
            x  == CASE tCall.rating = AGAIN -> 0
                    [] tCall.rating = HARD  -> IF 24 * S > 20 THEN 24 * S ELSE 20
                    [] tCall.rating = GOOD  -> IF 50 * S1 > 20 THEN 50 * S1 ELSE 20
                    [] tCall.rating = EASY  -> IF 80 * S1 > 20 THEN 80 * S1 ELSE 20
        IN  /\ r \in Nat
            /\ 20 * r - 10 <= x
            /\ x < 20 * r + 10
            /\ (S = 0 /\ tCall.rating = GOOD) => r = 3
            /\ (S = 0 /\ tCall.rating = HARD) => r = 1
            /\ (S = 2 /\ tCall.rating = EASY) => r = 8

C7_Witness ==
    /\ ValidCall
    /\ tCall.card.scheduledDays = 3
    /\ tCall.rating = GOOD
    /\ tCall.result.scheduledDays = 8

\* C8: in the card returned by one scheduleReview call, due - updatedAt is
\* exactly scheduledDays days, whatever the clock does during the call.
C8_SingleInstant ==
    ValidCall =>
        tCall.result.due
            = tCall.result.updatedAt + tCall.result.scheduledDays * 86400000

\* C9: scheduleReview called with a rating outside 1..4 signals an
\* invalid-input error and produces no updated card.
InvalidInput == [error |-> "invalid rating"]

C9_InvalidRatingRejected ==
    InvalidCall => tCall.result = InvalidInput

\* C10: scheduleReview changes only reps, updatedAt, state, scheduledDays and
\* due; every other field of the returned card equals the input card's, and
\* the input card is left unmodified.
CarriedFields ==
    { "id", "userId", "word", "pronunciation", "vietnameseMeaning", "context",
      "difficulty", "source", "createdAt", "elapsedDays", "stability",
      "difficultyRating" }

C10_Frame ==
    Called =>
        /\ DOMAIN tCall.result = DOMAIN tCall.card
        /\ \A f \in CarriedFields : tCall.result[f] = tCall.card[f]
        /\ tCall.arg = tCall.card

C10_Witness ==
    /\ ValidCall
    /\ tCall.now1 > tCall.card.createdAt
    /\ tCall.result.updatedAt > tCall.card.updatedAt
    /\ tCall.result.reps = tCall.card.reps + 1
    /\ tCall.result.state # tCall.card.state

\* C11: for every word record, source label and user id, initializeCard
\* returns a card with state New (0), reps 0, scheduledDays 0, stability 0,
\* difficultyRating 0 and createdAt = updatedAt = due = the creation instant,
\* with userId and source set to the given arguments.
C11_InitialCard ==
    iCall # NoCall =>
        /\ iCall.result.state = 0
        /\ iCall.result.reps = 0
        /\ iCall.result.scheduledDays = 0
        /\ iCall.result.stability = 0
        /\ iCall.result.difficultyRating = 0
        /\ iCall.result.createdAt = iCall.now
        /\ iCall.result.updatedAt = iCall.now
        /\ iCall.result.due = iCall.now
        /\ iCall.result.userId = iCall.userId
        /\ iCall.result.source = iCall.source

C11_Witness ==
    /\ iCall # NoCall
    /\ "reps" \in DOMAIN iCall.word
    /\ iCall.word.reps = 3
    /\ iCall.word.state = StateReview
    /\ iCall.word.due = 9
    /\ iCall.now = 1
    /\ iCall.result.reps = 0
    /\ iCall.result.due = 1
    /\ iCall.result.word = iCall.word.word

\* C12: submitting the same batch of card records a second time leaves the
\* store in exactly the state reached after the first submission.
C12_SyncIdempotent ==
    (sCall # NoCall /\ sCall.replay) => db = sCall.before

C12_Witness ==
    /\ sCall # NoCall
    /\ sCall.replay
    /\ Len(sCall.cards) = 2
    /\ sCall.cards[1].id = 1
    /\ sCall.cards[2].id = 1
    /\ sCall.cards[1].updatedAt = 1
    /\ sCall.cards[2].updatedAt = 0
    /\ Len(db) = 2
    /\ db[2].id = 1
    /\ db[2].updatedAt = 0

\* C19: a sync request authenticated as user U never changes, re-owns or
\* removes a stored card of another user V: V's card listing is the same
\* before and after U's sync.
C19_UserIsolation ==
    sCall # NoCall =>
        \A v \in AllUsers \ {sCall.uid} :
            selectCards(db, v) = selectCards(sCall.before, v)

\* C20: a sync request leaves every stored card whose id is not in the batch
\* unchanged and never reduces the set of stored ids; after it, each id of
\* the batch is stored exactly once.
idsOf(rows) == {rows[i].id : i \in 1..Len(rows)}

C20_SyncFrame ==
    sCall # NoCall =>
        LET before == sCall.before
            batch  == idsOf(sCall.cards)
        IN  /\ \A i \in 1..Len(before) :
                   before[i].id \notin batch =>
                       \E j \in 1..Len(db) : db[j] = before[i]
            /\ idsOf(before) \subseteq idsOf(db)
            /\ idsOf(db) = idsOf(before) \cup batch
            /\ \A id \in batch :
                   Cardinality({j \in 1..Len(db) : db[j].id = id}) = 1

C20_Witness ==
    /\ sCall # NoCall
    /\ ~sCall.replay
    /\ Len(sCall.before) = 1
    /\ sCall.before[1].id = 2
    /\ Len(sCall.cards) = 2
    /\ sCall.cards[1].id = 1
    /\ sCall.cards[2].id = 1
    /\ Len(db) = 2
    /\ db[1] = sCall.before[1]
    /\ db[2].id = 1

\* C18: under any sequence of valid reviews starting from initializeCard the
\* state of the card is New (0), Review (2) or Relearning (3), never
\* Learning (1); it is New exactly when reps is 0; a review of a New card
\* with a rating other than Again gives Review, and no review gives New.
C18_ThreeStates ==
    /\ tCard.state \in {StateNew, StateReview, StateRelearning}
    /\ tCard.state # StateLearning
    /\ (tCard.state = StateNew) <=> (tCard.reps = 0)
    /\ tCall # NoCall =>
         /\ tCall.result.state # StateNew
         /\ (tCall.card.state = StateNew /\ tCall.rating # AGAIN)
                => tCall.result.state = StateReview

C18_Witness ==
    /\ tCall # NoCall
    /\ tCall.card.state = StateReview
    /\ tCall.card.reps = 1
    /\ tCall.rating = AGAIN
    /\ tCard.state = StateRelearning
    /\ tCard.reps = 2

\* C13: in every reachable state every card has due >= createdAt: the cards
\* stored on the server, the cards in sync requests, and the cards held by
\* the Study pages (as initialized and after any sequence of reviews).
cardsOf(rows) == {rows[i] : i \in 1..Len(rows)}

CardsInSystem ==
    cardsOf(db)
      \cup UNION {cardsOf(m.cards) : m \in BagToSet(net)}
      \cup UNION {cardsOf(study[d].allCards) \cup cardsOf(study[d].dueCards) :
                    d \in {x \in Devices : study[x].mounted}}

C13_DueAfterCreated == \A c \in CardsInSystem : c.due >= c.createdAt

C13_Witness ==
    \E i \in 1..Len(db), d \in Devices :
        /\ db[i].reps >= 1
        /\ db[i].createdAt = 1
        /\ db[i].due = 1
        /\ clock[d] = 0

\* C14: on any single device the updatedAt observed for a card id never
\* decreases: a later local representation of the card (after a fetch or a
\* local review) never carries a smaller updatedAt than an earlier one.
C14_UpdatedAtMonotone ==
    [][\A d \in Devices :
          (study[d].mounted /\ study'[d].mounted) =>
              \A c \in cardsOf(study[d].allCards),
                 c2 \in cardsOf(study'[d].allCards) :
                    c.id = c2.id => c2.updatedAt >= c.updatedAt]_vars

\* C15: the study queue built when the Study page loads holds exactly the
\* fetched cards whose due is <= the instant of the query, each once, and no
\* card whose due is later than that instant.
queueAsOf(d, t) ==
    /\ cardsOf(study[d].dueCards)
          = {c \in cardsOf(study[d].allCards) : c.due <= t}
    /\ \A i, j \in 1..Len(study[d].dueCards) :
          study[d].dueCards[i] = study[d].dueCards[j] => i = j

C15_QueueAtInstant ==
    \A d \in Devices :
        (study[d].mounted /\ ~study[d].isStarted)
            => \E t \in 0..(MaxClock + 1) : queueAsOf(d, t)

\* C16: during a study session the scheduler transition is applied exactly
\* once per presented card, for any interleaving of rating clicks, sync
\* requests and delayed index advances: at most one review of the presented
\* card is submitted, the index advances by one per presented card, and no
\* card of the queue is passed without having been reviewed.
ratesInFlight(d) ==
    BagCardinality([m \in {x \in BagToSet(net) :
                             /\ x.from = "handleRate"
                             /\ x.dev = d
                             /\ x.session = study[d].session} |-> net[m]])

C16_OncePerCard ==
    \A d \in Devices :
        study[d].mounted =>
            /\ ratesInFlight(d) + study[d].timers <= 1
            /\ study[d].currentIndex + study[d].timers <= Len(study[d].dueCards)
            /\ \A i \in 1..Len(study[d].dueCards) :
                  i <= study[d].currentIndex =>
                      study[d].dueCards[i] \notin cardsOf(study[d].allCards)

\* a step in which the sync request m of handleRate is answered to the
\* session that sent it: with a failure (the catch branch runs), or with
\* success
Answered(m) ==
    /\ m.from = "handleRate"
    /\ net' = net (-) SetToBag({m})
    /\ study[m.dev].mounted
    /\ study[m.dev].session = m.session

FailedStep(m)    == Answered(m) /\ study'[m.dev].retry = "failed"
SucceededStep(m) == Answered(m) /\ study'[m.dev].retry # "failed"

\* the session neither advances nor hides the rating buttons
SessionStays(d) ==
    /\ study'[d].currentIndex = study[d].currentIndex
    /\ study'[d].timers = study[d].timers
    /\ study'[d].isFlipped = study[d].isFlipped
    /\ study'[d].dueCards = study[d].dueCards
    /\ study'[d].allCards = study[d].allCards

\* the reps stored for the card of request m after the step is the reps of
\* the card in the queue of the session plus one
StoredRepsPlusOne(m) ==
    \E j \in 1..Len(db'), c \in cardsOf(study[m.dev].dueCards) :
        /\ db'[j].id = m.cards[1].id
        /\ c.id = m.cards[1].id
        /\ db'[j].reps = c.reps + 1

\* C17 (as stated): when the sync request of handleRate fails the server
\* store is unchanged, the session does not advance past the card and the
\* card can be rated again; a successful attempt after failed ones stores
\* the reps the card had before the first attempt plus one.
C17_FailedSyncNotRecorded ==
    [][\A m \in BagToSet(net) :
          /\ FailedStep(m) => (db' = db /\ SessionStays(m.dev))
          /\ (SucceededStep(m) /\ study[m.dev].retry = "failed")
                => StoredRepsPlusOne(m)]_vars

\* C17 (amended): when the sync request of handleRate fails the session does
\* not advance past the card and the card can be rated again; the server
\* store is unchanged, or (the response was lost after the server committed)
\* it holds the submitted record; a successful attempt after failed ones
\* stores the reps the card had before the first attempt plus one.
C17_FailedSyncRetry ==
    [][\A m \in BagToSet(net) :
          /\ FailedStep(m) =>
                /\ db' = db \/ db' = syncCards(db, deviceUser(m.dev), m.cards)
                /\ SessionStays(m.dev)
          /\ (SucceededStep(m) /\ study[m.dev].retry = "failed")
                => StoredRepsPlusOne(m)]_vars

C17_Witness ==
    \E d \in Devices, e \in Devices :
        /\ ~study[e].mounted
        /\ study[d].mounted
        /\ study[d].retry = "recovered"
        /\ study[d].currentIndex = 0
        /\ study[d].timers = 1
        /\ net = EmptyBag
        /\ synced[study[d].dueCards[1].id] = 2
        /\ \E j \in 1..Len(db) :
              /\ db[j].id = study[d].dueCards[1].id
              /\ db[j].reps = study[d].dueCards[1].reps + 1

\* C21: listing and deletion are scoped to the authenticated user: GET
\* /api/cards of user U returns exactly the stored cards with userId = U
\* (each once, the store unchanged); DELETE /api/cards/:id of user U removes
\* at most the card with that id owned by U and leaves every other stored
\* card unchanged, also a card with that id owned by another user.
positionsOf(rows, c) == {i \in 1..Len(rows) : rows[i] = c}

C21_ScopedToUser ==
    qCall # NoCall =>
        LET before == qCall.before
            mine(c) == c.userId = qCall.uid
            hit(c)  == c.id = qCall.id /\ c.userId = qCall.uid
        IN  /\ qCall.op = "GET" =>
                 /\ db = before
                 /\ cardsOf(qCall.result) = {c \in cardsOf(before) : mine(c)}
                 /\ \A c \in cardsOf(qCall.result) :
                       Cardinality(positionsOf(qCall.result, c)) = 1
            /\ qCall.op = "DELETE" =>
                 /\ cardsOf(db) = {c \in cardsOf(before) : ~hit(c)}
                 /\ \A c \in cardsOf(db) :
                       Cardinality(positionsOf(db, c)) = 1
                 /\ Cardinality(cardsOf(before) \ cardsOf(db)) <= 1

C21_Witness ==
    /\ qCall # NoCall
    /\ qCall.op = "DELETE"
    /\ qCall.uid = "u1"
    /\ qCall.id = 1
    /\ Len(qCall.before) = 2
    /\ qCall.before[1].id = 1
    /\ qCall.before[1].userId = "u2"
    /\ qCall.before[2].userId = "u1"
    /\ db = qCall.before

====
